---- MODULE Spec2Model ----
(***************************************************************************)
(* Exam attempts, code submissions and the final-submission selector of    *)
(* the CodeColiseum backend.  The relational store is the state; every     *)
(* controller is an action; the exam-mode grading pipeline                 *)
(* (submitCodeService) is split at its await points, so that two requests  *)
(* can interleave exactly where the event loop lets them.                  *)
(*                                                                         *)
(* Time is a discrete clock `now`; dates and durations are in clock ticks. *)
(* There is one exam; an attempt is keyed by (exam, student), so the       *)
(* student identifies the attempt.                                         *)
(*                                                                         *)
(* Spec       the attempt lifecycle: all controllers, the clock, and       *)
(*            submitCode requests served one at a time                     *)
(* SpecSerial grading during a running exam, one request after the other   *)
(* SpecConc   grading during a running exam, two requests interleaving     *)
(* SpecScore  grading during a running exam, followed by submitTest        *)
(* SpecGrade  exam-mode and practice-mode grading of judge answers that    *)
(*            are fixed in the initial state                               *)
(***************************************************************************)
EXTENDS Integers, Sequences, FiniteSets, TLC

\* ------------------------------------------------------------------ bounds
\* Largest number of Submission rows.
MaxSubs == 2

\* Largest number of SelfSubmission rows.
MaxSelf == 1

\* ------------------------------------------------------- data of the store
Students == {"s1", "s2"}
Problems == {"p1", "p2"}
Groups   == {"g1"}
Pipes    == {"A", "B"}

\* The requests of the attempt-lifecycle specification: one student, one
\* problem, a judge that answers accepted, wrong answer or compile error.
LifeStudents == {"s1"}
LifeProblems == {"p1"}
LifeIds == {3, 4, 6}

\* groupMember rows, examGroup rows, Group.aiEnabled
Members(g)    == Students
ExamGroups    == {"g1"}
AiEnabled(g)  == TRUE

\* Exam row: startDate, durationMin (ticks), endDate.
StartDate   == 1
DurationMin == 1
EndDate     == StartDate + DurationMin

\* Last clock value: the first instant after the end date.
MaxTime == EndDate + 1

\* TestCase.cases of a problem: the number of hidden cases.
CaseCount(p) == IF p = "p1" THEN 2 ELSE 3

Null == 0 - 1

VARIABLES
  now,          \* the clock (Date.now(), new Date())
  exam,         \* the Exam row: [isPublished, status]
  attempts,     \* ExamAttempt rows, by student
  examResults,  \* ExamResult rows, in creation order
  subs,         \* Submission rows, in creation order; the index is the id
  pipe,         \* per request slot: the locals of one submitCodeService call
  sps,          \* StudentProblemStats rows, by <<student, problem, group>>
  gps,          \* GroupProblemStats rows, by <<group, problem>>
  sos,          \* StudentOverallStats.totalAttempts, by <<group, student>>
  responses,    \* SubmitCodeResponse values returned, in order
  selfSubs,     \* SelfSubmission rows (practice mode), in creation order
  selfOut,      \* what the last practice-mode submitCodeService call returned
  judge,        \* the answers the judge is going to give, when they are fixed
  validation,   \* what the last validateComplexityCases call answered
  poll,         \* the locals of one polling loop: which loop, polls done, result
  text,         \* the template, the candidate's source and the text sent to the judge
  probe,        \* the complexity block of one request: probes sent and answered
  ai            \* the AI chat: its clock, the rate-limit row, the conversation

vars == <<now, exam, attempts, examResults, subs, pipe, sps, gps, sos, responses,
          selfSubs, selfOut, judge, validation, poll, text, probe, ai>>

\* ---------------------------------------------------------------- helpers
\* A rounding that truncates.
RoundDown(a, b) == a \div b

\* Math.round(a / b) for a >= 0, b > 0
Round(a, b) == (2 * a + b) \div (2 * b)

RECURSIVE SumOver(_, _)
SumOver(S, f) ==
  IF S = {} THEN 0
  ELSE LET x == CHOOSE y \in S : TRUE IN f[x] + SumOver(S \ {x}, f)

Max(a, b) == IF a >= b THEN a ELSE b

\* ------------------------------------------------------------ ExamAttempt
NoAttempt ==
  [status |-> "ABSENT", startedAt |-> Null, expiresAt |-> Null,
   submittedAt |-> Null, lastHeartbeatAt |-> Null, totalScore |-> 0]

\* A row in the schema's first status, created before the exam was started.
NotStartedAttempt == [NoAttempt EXCEPT !.status = "NOT_STARTED"]

Terminal == {"SUBMITTED", "AUTO_SUBMITTED"}

\* examGroup.findFirst of canGiveExam
Allowed(s) == \E g \in ExamGroups : s \in Members(g)

CanGiveExam(s) ==
  IF ~Allowed(s) THEN "Student Not Allowed"
  ELSE IF StartDate > now THEN "Exam Not Started"
  ELSE IF ~exam.isPublished THEN "Exam is not Published"
  ELSE IF /\ attempts[s].status # "ABSENT"
          /\ attempts[s].status # "NOT_STARTED"
          /\ attempts[s].status # "IN_PROGRESS" THEN "Already Attempted"
  ELSE "ok"

\* The status validateAttempt writes on expiry.
ExpiredStatus == "AUTO_SUBMITTED"

\* A validateAttempt that treats the expiry instant itself as expired.
ValidateAttemptEager(s) ==
  LET a == attempts[s] IN
  IF a.status = "ABSENT" THEN [err |-> "Attempt not found", att |-> attempts]
  ELSE IF now >= a.expiresAt THEN
    [err |-> "Exam time over",
     att |-> IF a.status = "IN_PROGRESS"
             THEN [attempts EXCEPT ![s].status = ExpiredStatus,
                                   ![s].submittedAt = now]
             ELSE attempts]
  ELSE IF a.status # "IN_PROGRESS" THEN [err |-> "Exam not active", att |-> attempts]
  ELSE [err |-> "ok", att |-> attempts]

\* validateAttempt: the error it throws ("ok" when it returns the attempt)
\* and the ExamAttempt table it leaves.
ValidateAttempt(s) ==
  LET a == attempts[s] IN
  IF a.status = "ABSENT" THEN [err |-> "Attempt not found", att |-> attempts]
  ELSE IF now > a.expiresAt THEN
    [err |-> "Exam time over",
     att |-> IF a.status = "IN_PROGRESS"
             THEN [attempts EXCEPT ![s].status = ExpiredStatus,
                                   ![s].submittedAt = now]
             ELSE attempts]
  ELSE IF a.status # "IN_PROGRESS" THEN [err |-> "Exam not active", att |-> attempts]
  ELSE [err |-> "ok", att |-> attempts]

\* A gate that forgets validateAttempt.
GateCanGiveExamOnly(s) == [err |-> CanGiveExam(s), att |-> attempts]

\* canGiveExam followed by validateAttempt, as every gated operation calls them.
Gate(s) ==
  IF CanGiveExam(s) # "ok" THEN [err |-> CanGiveExam(s), att |-> attempts]
  ELSE ValidateAttempt(s)

\* ---------------------------------------------------------------- initial
IdlePipe ==
  [pc |-> "idle", student |-> "s1", problem |-> "p1", passed |-> 0,
   status |-> "NONE", score |-> 0, prev |-> 0, isFinal |-> FALSE, sid |-> 0,
   sent |-> FALSE, err |-> "none", probes |-> 0, time |-> 0, memory |-> 0,
   yourTimeComplexity |-> "null", expectedTimeComplexity |-> "null",
   existingStudentProblemStats |-> [attempts |-> 0, solved |-> FALSE],
   existingGroupStats |-> [attemptedCount |-> 0, acceptedCount |-> 0,
                           totalAttempts |-> 0,
                           avgRuntime |-> <<0, 1>>, avgMemory |-> <<0, 1>>]]

\* No practice-mode call has returned yet.
IdleSelf ==
  [err |-> "none", status |-> "NONE", noOfPassedCases |-> 0, totalCases |-> 0,
   probes |-> 0, failedCase |-> 0, yourTimeComplexity |-> "null",
   expectedTimeComplexity |-> "null"]

\* The judge answers whatever it likes; the time and memory it reports for
\* the cases of a submission add up to one unit each.
FreeJudge == [scripted |-> FALSE, res |-> <<>>, times |-> <<>>, loads |-> {<<1, 1>>}]

\* No validateComplexityCases call has answered yet.
IdleValidation == [code |-> 0, yourComplexity |-> "null"]

\* No polling loop is running.
IdlePoll == [loop |-> "none", attempts |-> 0, outcome |-> "none", id |-> 0]

\* No text has been assembled: no template, empty source.
IdleText == [driver |-> FALSE, header |-> <<>>, sourceCode |-> <<>>, footer |-> <<>>,
             sent |-> FALSE, finalCode |-> <<>>]

\* No request is in its complexity block.
IdleProbe == [mode |-> "none", pc |-> "idle", cases |-> 0, results |-> 0,
              dispatched |-> <<>>, received |-> 0, times |-> <<>>]

\* No chat request was made: no AIRateLimit row (lastRequest Null), no
\* conversation row, no message.
IdleAi == [now |-> 0, lastRequest |-> Null, convo |-> FALSE, messageCount |-> 0,
           messages |-> 0, err |-> "none"]

Init ==
  /\ now = 0
  /\ exam \in [isPublished : BOOLEAN, status : {"scheduled"}]
  /\ attempts \in [Students -> {NoAttempt, NotStartedAttempt}]
  /\ \A s \in Students \ LifeStudents : attempts[s] = NoAttempt
  /\ examResults = <<>>
  /\ subs = <<>>
  /\ pipe = [pl \in Pipes |-> IdlePipe]
  /\ sps = [k \in Students \X Problems \X Groups |-> [attempts |-> 0, solved |-> FALSE]]
  /\ gps = [k \in Groups \X Problems |->
              [attemptedCount |-> 0, acceptedCount |-> 0, totalAttempts |-> 0,
               avgRuntime |-> <<0, 1>>, avgMemory |-> <<0, 1>>]]
  /\ sos = [k \in Groups \X Students |-> 0]
  /\ responses = <<>>
  /\ selfSubs = <<>>
  /\ selfOut = IdleSelf
  /\ judge = FreeJudge
  /\ validation = IdleValidation
  /\ poll = IdlePoll
  /\ text = IdleText
  /\ probe = IdleProbe
  /\ ai = IdleAi

\* ------------------------------------------------------------- the clock
Tick ==
  /\ now < MaxTime
  /\ now' = now + 1
  /\ UNCHANGED <<text, probe, ai, selfSubs, selfOut, judge, validation, poll, exam, attempts, examResults, subs, pipe, sps,
               gps, sos, responses>>

\* -------------------------------------------------------------- startTest
\* The update branch of startTest's upsert.
StartTestUpdate(a) == [a EXCEPT !.lastHeartbeatAt = now]

\* The create branch of startTest's upsert.
StartTestCreate ==
  [status |-> "IN_PROGRESS", startedAt |-> now, expiresAt |-> now + DurationMin,
   submittedAt |-> Null, lastHeartbeatAt |-> now, totalScore |-> 0]

StartTest(s) ==
  /\ attempts' =
       IF CanGiveExam(s) # "ok" THEN attempts
       ELSE IF attempts[s].status = "ABSENT"
            THEN [attempts EXCEPT ![s] = StartTestCreate]
            ELSE [attempts EXCEPT ![s] = StartTestUpdate(attempts[s])]
  /\ UNCHANGED <<text, probe, ai, selfSubs, selfOut, judge, validation, poll,
                 now, exam, examResults, subs, pipe, sps, gps, sos, responses>>

\* -------------------------------------------------------------- heartbeat
\* A heartbeat that also gives the attempt a fresh duration.
HeartbeatDataExtends(a) ==
  [a EXCEPT !.lastHeartbeatAt = now, !.expiresAt = now + DurationMin]

\* The data clause of heartbeat's updateMany.
HeartbeatData(a) == [a EXCEPT !.lastHeartbeatAt = now]

Heartbeat(s) ==
  /\ attempts' =
       [t \in Students |->
          IF t = s /\ attempts[t].status = "IN_PROGRESS"
          THEN HeartbeatData(attempts[t])
          ELSE attempts[t]]
  /\ UNCHANGED <<text, probe, ai, selfSubs, selfOut, judge, validation, poll,
                 now, exam, examResults, subs, pipe, sps, gps, sos, responses>>

\* -------------------------------------------------------- getTestProblems
GetTestProblems(s) ==
  /\ attempts' = Gate(s).att
  /\ UNCHANGED <<text, probe, ai, selfSubs, selfOut, judge, validation, poll,
                 now, exam, examResults, subs, pipe, sps, gps, sos, responses>>

\* ------------------------------------------------------------- Submission
\* Submission rows of a student for a problem (one exam, one attempt per student).
RowsOf(s, p) == {i \in 1..Len(subs) : subs[i].student = s /\ subs[i].problem = p}

\* The where clause of the prevFinalSubmission query.
FinalsOf(s, p) == {i \in RowsOf(s, p) : subs[i].isFinal}

\* Math.round((passedTestcases / totalTestcases) * 100), 0 without test cases
ProblemScore(row) ==
  IF row.total > 0 THEN Round(row.passed * 100, row.total) ELSE 0

\* ------------------------------------------------------------- submitTest
\* scoreMap of submitTest: the best score over all submissions of a problem.
BestScore(s, p) ==
  LET best[n \in 0..Len(subs)] ==
        IF n = 0 THEN 0
        ELSE IF subs[n].student = s /\ subs[n].problem = p
             THEN Max(ProblemScore(subs[n]), best[n - 1])
             ELSE best[n - 1]
  IN best[Len(subs)]

SubmitTestScore(s) ==
  SumOver({p \in Problems : RowsOf(s, p) # {}}, [p \in Problems |-> BestScore(s, p)])

\* The attempt is updated and the ExamResult row created (in that order).
SubmitTest(s) ==
  LET g == Gate(s) IN
  /\ IF g.err = "ok"
     THEN /\ attempts' = [attempts EXCEPT ![s].status = "SUBMITTED",
                                          ![s].submittedAt = now,
                                          ![s].totalScore = SubmitTestScore(s)]
          /\ examResults' = Append(examResults,
                                   [student |-> s, score |-> SubmitTestScore(s)])
     ELSE /\ attempts' = g.att
          /\ UNCHANGED examResults
  /\ UNCHANGED <<text, probe, ai, selfSubs, selfOut, judge, validation, poll,
                 now, exam, subs, pipe, sps, gps, sos, responses>>

\* ---------------------------------------------------------- finalizeExams
\* totalScore of finalizeExams for one attempt.
FinalizeScore(s) ==
  LET finals == {i \in 1..Len(subs) : subs[i].student = s /\ subs[i].isFinal}
      n == Cardinality(Problems)
  IN IF n > 0
     THEN Round(SumOver(finals, [i \in 1..Len(subs) |-> ProblemScore(subs[i])]), n)
     ELSE 0

\* The status finalizeExams writes on the attempts it closes.
FinalizeStatus == "AUTO_SUBMITTED"

RECURSIVE AppendAll(_, _)
AppendAll(seq, S) ==
  IF S = {} THEN seq
  ELSE LET s == CHOOSE x \in S : TRUE
       IN AppendAll(Append(seq, [student |-> s, score |-> FinalizeScore(s)]), S \ {s})

\* Every IN_PROGRESS attempt of the ended exam gets its ExamResult and is
\* closed, the exam is marked completed.  The group and student overall
\* score tables it recomputes afterwards are not part of this state
\* (StudentOverallStats.totalAttempts is left as it is by that upsert).
FinalizeExams ==
  LET active == {s \in Students : attempts[s].status = "IN_PROGRESS"} IN
  /\ EndDate < now
  /\ exam.status \notin {"completed", "finished", "ai_processing"}
  /\ examResults' = AppendAll(examResults, active)
  /\ attempts' = [s \in Students |->
                    IF s \in active
                    THEN [attempts[s] EXCEPT !.status = FinalizeStatus,
                                             !.submittedAt = now,
                                             !.totalScore = FinalizeScore(s)]
                    ELSE attempts[s]]
  /\ exam' = [exam EXCEPT !.status = "completed"]
  /\ UNCHANGED <<text, probe, ai, selfSubs, selfOut, judge, validation, poll, now, subs, pipe, sps, gps, sos, responses>>

\* ------------------------------------------------------------- chatWithAi
\* A chat handler that reopens the attempt instead of closing it.
ChatEndStatusReopen == "IN_PROGRESS"

\* The status chatWithAi writes once the exam's end date has passed.
ChatEndStatus == "AUTO_SUBMITTED"

\* The examAttempt.update of chatWithAi (it throws when there is no row).
ChatEndUpdate(a) ==
  IF a.status = "ABSENT" THEN a ELSE [a EXCEPT !.status = ChatEndStatus]

\* Before the end date the handler touches only the conversation tables.
ChatWithAi(s, g) ==
  /\ attempts' =
       IF s \in Members(g) /\ AiEnabled(g) /\ EndDate < now
       THEN [attempts EXCEPT ![s] = ChatEndUpdate(attempts[s])]
       ELSE attempts
  /\ UNCHANGED <<text, probe, ai, selfSubs, selfOut, judge, validation, poll,
                 now, exam, examResults, subs, pipe, sps, gps, sos, responses>>

\* ------------------------------------------------- judge results, grading
\* Judge0 status ids a terminal result can carry (one of each family).
JudgeStatusIds == {3, 4, 5, 6, 11, 13}

MapJudge0Status(id) ==
  IF id = 3 THEN "ACCEPTED"
  ELSE IF id = 4 THEN "WRONG_ANSWER"
  ELSE IF id = 5 THEN "TIME_LIMIT_EXCEEDED"
  ELSE IF id = 6 THEN "COMPILATION_ERROR"
  ELSE IF id \in 7..12 THEN "RUNTIME_ERROR"
  ELSE "INTERNAL_ERROR"

\* finalResults: the mapped status of every case
FinalResults(res) == [i \in DOMAIN res |-> MapJudge0Status(res[i])]

PassedCount(fr) == Cardinality({i \in DOMAIN fr : fr[i] = "ACCEPTED"})

\* A precedence that looks at time limits before compile errors.
OverallStatusTimeFirst(fr) ==
  LET some(st) == \E i \in DOMAIN fr : fr[i] = st
      passedCount == PassedCount(fr)
      totalCount == Len(fr)
  IN IF some("TIME_LIMIT_EXCEEDED") THEN "TIME_LIMIT"
     ELSE IF some("COMPILATION_ERROR") THEN "COMPILE_ERROR"
     ELSE IF some("RUNTIME_ERROR") THEN "RUNTIME_ERROR"
     ELSE IF passedCount = totalCount THEN "ACCEPTED"
     ELSE IF passedCount > 0 THEN "PARTIAL"
     ELSE "WRONG_ANSWER"

OverallStatus(fr) ==
  LET some(st) == \E i \in DOMAIN fr : fr[i] = st
      passedCount == PassedCount(fr)
      totalCount == Len(fr)
  IN IF some("COMPILATION_ERROR") THEN "COMPILE_ERROR"
     ELSE IF some("TIME_LIMIT_EXCEEDED") THEN "TIME_LIMIT"
     ELSE IF some("RUNTIME_ERROR") THEN "RUNTIME_ERROR"
     ELSE IF passedCount = totalCount THEN "ACCEPTED"
     ELSE IF passedCount > 0 THEN "PARTIAL"
     ELSE "WRONG_ANSWER"

\* ------------------------------------------------------------- complexity
\* ranges: class -> <<10 * min, 10 * max, idx>>; Infinity is no upper limit.
Classes == <<"LOGN", "N", "NLOGN", "N2", "N3", "EXP">>
RangeMin == <<0, 13, 18, 26, 45, 75>>
RangeMax == <<13, 18, 26, 45, 75, Null>>
Idx(c) == (CHOOSE i \in 1..Len(Classes) : Classes[i] = c) - 1

Abs(x) == IF x < 0 THEN 0 - x ELSE x

\* A classifier whose deviation test divides by the first ratio.
ClassifyComplexityFirstRatio(r1, r2) ==
  LET x == r1[1] * r2[2]
      y == r2[1] * r1[2]
      den == r1[2] * r2[2]
      InBin(i) == /\ 10 * (x + y) >= RangeMin[i] * 2 * den
                  /\ \/ RangeMax[i] = Null
                     \/ 10 * (x + y) < RangeMax[i] * 2 * den
  IN IF 10 * Abs(x - y) > 4 * x THEN "EXP"
     ELSE IF \E i \in 1..Len(Classes) : InBin(i)
          THEN Classes[CHOOSE i \in 1..Len(Classes) :
                         InBin(i) /\ \A j \in 1..(i - 1) : ~InBin(j)]
          ELSE "EXP"

\* A classifier whose bins are closed at the upper end.
ClassifyComplexityUpperClosed(r1, r2) ==
  LET x == r1[1] * r2[2]
      y == r2[1] * r1[2]
      den == r1[2] * r2[2]
      InBin(i) == /\ 10 * (x + y) > RangeMin[i] * 2 * den
                  /\ \/ RangeMax[i] = Null
                     \/ 10 * (x + y) <= RangeMax[i] * 2 * den
  IN IF 10 * Abs(x - y) > 4 * Max(x, y) THEN "EXP"
     ELSE IF \E i \in 1..Len(Classes) : InBin(i)
          THEN Classes[CHOOSE i \in 1..Len(Classes) :
                         InBin(i) /\ \A j \in 1..(i - 1) : ~InBin(j)]
          ELSE "EXP"

\* classifyComplexity(r1, r2) for the positive ratios r1 = a/b and r2 = c/d,
\* each given as <<numerator, denominator>>, computed in exact arithmetic.
ClassifyComplexity(r1, r2) ==
  LET x == r1[1] * r2[2]            \* r1 * (b * d)
      y == r2[1] * r1[2]            \* r2 * (b * d)
      den == r1[2] * r2[2]
      InBin(i) == /\ 10 * (x + y) >= RangeMin[i] * 2 * den
                  /\ \/ RangeMax[i] = Null
                     \/ 10 * (x + y) < RangeMax[i] * 2 * den
  IN IF 10 * Abs(x - y) > 4 * Max(x, y) THEN "EXP"
     ELSE IF \E i \in 1..Len(Classes) : InBin(i)
          THEN Classes[CHOOSE i \in 1..Len(Classes) :
                         InBin(i) /\ \A j \in 1..(i - 1) : ~InBin(j)]
          ELSE "EXP"

\* problemTestGenerator row of a problem ("NONE": no row).
Generator(p) ==
  IF p = "p1"
  THEN [type |-> "ARRAY", sizes |-> <<1000, 2000, 4000>>, expectedComplexity |-> "N"]
  ELSE [type |-> "NONE", sizes |-> <<>>, expectedComplexity |-> "EXP"]

\* Elapsed times a probe run can report; 0 stands for a missing or
\* non-finite time, which the pipeline stores as 0.
ProbeTimes == {0, 1, 2, 8}

\* A complexity block that does not look at the functional results.
RunsProbesAlways(p, passedCount, totalCount) ==
  /\ Generator(p).type = "ARRAY"
  /\ Len(Generator(p).sizes) >= 3

\* Whether the complexity block runs the probes.
RunsProbes(p, passedCount, totalCount) ==
  /\ passedCount = totalCount
  /\ Generator(p).type = "ARRAY"
  /\ Len(Generator(p).sizes) >= 3

\* A comparison that also penalises the expected class itself.
BadScalingStrict(p, times) ==
  /\ \A i \in DOMAIN times : times[i] > 0
  /\ Idx(ClassifyComplexity(<<times[2], times[1]>>, <<times[3], times[2]>>))
       >= Idx(Generator(p).expectedComplexity)

\* Whether the measured times make the pipeline apply the penalty.
BadScaling(p, times) ==
  /\ \A i \in DOMAIN times : times[i] > 0
  /\ Idx(ClassifyComplexity(<<times[2], times[1]>>, <<times[3], times[2]>>))
       > Idx(Generator(p).expectedComplexity)

\* ------------------------------------------------------ submitCodeService
Active(pl) == pipe[pl].pc # "idle"

\* The request ends with an error message or with "ok" (the response was
\* sent): its locals are gone, the outcome is what the caller saw.
Ended(pl, msg) == pipe' = [pipe EXCEPT ![pl] = [IdlePipe EXCEPT !.err = msg]]

\* Lines 152-165: the exam is loaded, canGiveExam and validateAttempt run.
\* The request is explored while fewer than max submissions exist or are
\* under way.
BeginBounded(pl, s, p, max) ==
  /\ ~Active(pl)
  /\ Len(subs) + Cardinality({q \in Pipes : Active(q)}) < max
  /\ attempts' = Gate(s).att
  /\ IF Gate(s).err = "ok"
     THEN pipe' = [pipe EXCEPT ![pl] = [IdlePipe EXCEPT !.pc = "eligible",
                                                        !.student = s,
                                                        !.problem = p]]
     ELSE Ended(pl, Gate(s).err)
  /\ UNCHANGED <<text, probe, ai, selfSubs, selfOut, judge, validation, poll,
                 now, exam, examResults, subs, sps, gps, sos, responses>>

Begin(pl, s, p) == BeginBounded(pl, s, p, MaxSubs)

\* A request that starts only when no other pipeline is running.
BeginSerial(pl, s, p) ==
  /\ \A q \in Pipes : ~Active(q)
  /\ Begin(pl, s, p)

\* Whether the pipeline classifies the measured times.
Classified(times) == \A i \in DOMAIN times : times[i] > 0

\* The terminal status ids the judge returns for the cases of problem p.
Answers(p, ids) ==
  IF judge.scripted
  THEN {r \in {judge.res} : Len(r) = CaseCount(p)}
  ELSE [1..CaseCount(p) -> ids]

\* The elapsed times the judge reports for the three probes.
Elapsed == IF judge.scripted THEN {judge.times} ELSE [1..3 -> ProbeTimes]

\* Lines 167-381: the batch is sent and polled, the results are mapped and
\* scored, the probes are run.
Grade(pl, ids) ==
  /\ pipe[pl].pc = "eligible"
  /\ \E res \in Answers(pipe[pl].problem, ids) :
       LET p == pipe[pl].problem
           fr == FinalResults(res)
           passedCount == PassedCount(fr)
           totalCount == Len(fr)
           score == Round(passedCount * 100, totalCount)
           probes == RunsProbes(p, passedCount, totalCount)
       IN \E times \in (IF probes THEN Elapsed ELSE {<<0, 0, 0>>}), load \in judge.loads :
          LET classified == probes /\ Classified(times)
              bad == probes /\ BadScaling(p, times)
          IN
          pipe' = [pipe EXCEPT
                     ![pl].pc = "graded",
                     ![pl].sent = TRUE,
                     ![pl].passed = passedCount,
                     ![pl].status = IF bad THEN "WRONG_ANSWER" ELSE OverallStatus(fr),
                     ![pl].score = IF bad THEN Round(score, 2) ELSE score,
                     ![pl].probes = IF probes THEN Len(Generator(p).sizes) ELSE 0,
                     ![pl].time = load[1],
                     ![pl].memory = load[2],
                     ![pl].yourTimeComplexity =
                        IF classified
                        THEN ClassifyComplexity(<<times[2], times[1]>>,
                                                <<times[3], times[2]>>)
                        ELSE "null",
                     ![pl].expectedTimeComplexity =
                        IF classified THEN Generator(p).expectedComplexity ELSE "null"]
  /\ UNCHANGED <<text, probe, ai, selfSubs, selfOut, judge, validation, poll, now, exam, attempts, examResults, subs, sps,
                 gps, sos, responses>>

\* The batch request, a poll or a probe fails.
GradeFails(pl) ==
  /\ pipe[pl].pc = "eligible"
  /\ Ended(pl, "Judge0 failed")
  /\ UNCHANGED <<text, probe, ai, selfSubs, selfOut, judge, validation, poll,
                 now, exam, attempts, examResults, subs, sps, gps, sos, responses>>

\* Lines 229-259: the poll loop of one of the tokens runs out before any
\* row is read or written.
GradeTimesOut(pl) ==
  /\ pipe[pl].pc = "eligible"
  /\ Ended(pl, "Submission timed out")
  /\ UNCHANGED <<text, probe, ai, selfSubs, selfOut, judge, validation, poll,
                 now, exam, attempts, examResults, subs, sps, gps, sos, responses>>

\* A selector that keeps the older submission on a tie.
IsCurrentSubmissionFinalStrict(prev, passedCount) ==
  prev = 0 \/ subs[prev].passed < passedCount

\* The condition of lines 410-413.
IsCurrentSubmissionFinal(prev, passedCount) ==
  prev = 0 \/ subs[prev].passed <= passedCount

\* Lines 383-414: the attempt and the previous final submission are read
\* (prev = 0: none found; findFirst returns any matching row).
ReadPrev(pl) ==
  LET s == pipe[pl].student
      p == pipe[pl].problem
  IN
  /\ pipe[pl].pc = "graded"
  /\ IF attempts[s].status = "ABSENT"
     THEN Ended(pl, "Exam attempt not found")
     ELSE \E prev \in (IF FinalsOf(s, p) = {} THEN {0} ELSE FinalsOf(s, p)) :
            pipe' = [pipe EXCEPT ![pl].pc = "selected",
                                 ![pl].prev = prev,
                                 ![pl].isFinal =
                                    IsCurrentSubmissionFinal(prev, pipe[pl].passed)]
  /\ UNCHANGED <<text, probe, ai, selfSubs, selfOut, judge, validation, poll,
                 now, exam, attempts, examResults, subs, sps, gps, sos, responses>>

\* A pipeline that never demotes the previous final.
DemotesNever(pl) == FALSE

\* Whether the pipeline demotes the previous final before it creates its row.
Demotes(pl) == pipe[pl].isFinal /\ pipe[pl].prev # 0

\* A demotion that clears the flag of every final row of the problem.
DemoteEveryFinal(pl) ==
  /\ pipe[pl].pc = "selected"
  /\ Demotes(pl)
  /\ subs' = [i \in 1..Len(subs) |->
                IF subs[i].problem = pipe[pl].problem
                THEN [subs[i] EXCEPT !.isFinal = FALSE]
                ELSE subs[i]]
  /\ pipe' = [pipe EXCEPT ![pl].pc = "demoted"]
  /\ UNCHANGED <<text, probe, ai, selfSubs, selfOut, judge, validation, poll,
                 now, exam, attempts, examResults, sps, gps, sos, responses>>

\* Lines 415-420: the previous final submission is set to isFinal = false.
Demote(pl) ==
  /\ pipe[pl].pc = "selected"
  /\ Demotes(pl)
  /\ subs' = [subs EXCEPT ![pipe[pl].prev].isFinal = FALSE]
  /\ pipe' = [pipe EXCEPT ![pl].pc = "demoted"]
  /\ UNCHANGED <<text, probe, ai, selfSubs, selfOut, judge, validation, poll,
                 now, exam, attempts, examResults, sps, gps, sos, responses>>

ReadyToCreate(pl) ==
  \/ pipe[pl].pc = "demoted"
  \/ pipe[pl].pc = "selected" /\ ~Demotes(pl)

\* Lines 423-439: the Submission row is created.
Create(pl) ==
  /\ ReadyToCreate(pl)
  /\ subs' = Append(subs, [student |-> pipe[pl].student,
                           problem |-> pipe[pl].problem,
                           passed |-> pipe[pl].passed,
                           total |-> CaseCount(pipe[pl].problem),
                           status |-> pipe[pl].status,
                           executionTime |-> pipe[pl].time,
                           memory |-> pipe[pl].memory,
                           isFinal |-> pipe[pl].isFinal])
  /\ pipe' = [pipe EXCEPT ![pl].pc = "created", ![pl].sid = Len(subs) + 1]
  /\ UNCHANGED <<text, probe, ai, selfSubs, selfOut, judge, validation, poll,
                 now, exam, attempts, examResults, sps, gps, sos, responses>>

\* The store rejects the create (connection lost, constraint, timeout).
CreateFails(pl) ==
  /\ ReadyToCreate(pl)
  /\ Ended(pl, "store failed")
  /\ UNCHANGED <<text, probe, ai, selfSubs, selfOut, judge, validation, poll,
                 now, exam, attempts, examResults, subs, sps, gps, sos, responses>>

\* Line 472 read wrongly: every submission counts as a first attempt.
IsFirstAttemptEvery(existing) == TRUE

\* Line 472: isFirstAttempt = !existing (a row with no attempt stands for no row).
IsFirstAttempt(existing) == existing.attempts = 0

\* Lines 473-475 read wrongly: every accepted submission counts as a first solve.
IsFirstSolveEvery(accepted, existing) == accepted

\* Lines 473-475: isFirstSolve = overallStatus === ACCEPTED && !existing?.solved.
IsFirstSolve(accepted, existing) == accepted /\ ~existing.solved

\* Lines 478-498 read wrongly: the update branch writes solved from the verdict.
SpsUpsertOverwrite(existing, accepted) ==
  IF existing.attempts = 0
  THEN [attempts |-> 1, solved |-> accepted]
  ELSE [attempts |-> existing.attempts + 1, solved |-> accepted]

\* Lines 478-498: the StudentProblemStats upsert. The create branch stores
\* the verdict; the update branch adds one attempt and sets solved only on
\* the first solve.
SpsUpsert(existing, accepted) ==
  IF IsFirstAttempt(existing)
  THEN [attempts |-> 1, solved |-> accepted]
  ELSE [attempts |-> existing.attempts + 1,
        solved |-> IF IsFirstSolve(accepted, existing) THEN TRUE ELSE existing.solved]

\* Lines 524-532 read wrongly: the sum is divided by the old count.
RunningMeanOldCount(avg, total, value) ==
  <<avg[1] * total + value * avg[2], avg[2] * total>>

\* Lines 524-532: (avg * totalAttempts + value) / (totalAttempts + 1), on the
\* fraction avg = <<numerator, denominator>>.
RunningMean(avg, total, value) ==
  <<avg[1] * total + value * avg[2], avg[2] * (total + 1)>>

\* Lines 501-549: the GroupProblemStats row is created by the first
\* submission of the key and updated by the later ones (a row with no
\* attempt stands for no row).
GpsUpsert(row, existing, accepted, time, memory) ==
  IF row.totalAttempts = 0
  THEN [attemptedCount |-> 1,
        acceptedCount |-> IF IsFirstSolve(accepted, existing) THEN 1 ELSE 0,
        totalAttempts |-> 1,
        avgRuntime |-> <<time, 1>>,
        avgMemory |-> <<memory, 1>>]
  ELSE [attemptedCount |-> row.attemptedCount
                             + IF IsFirstAttempt(existing) THEN 1 ELSE 0,
        acceptedCount |-> row.acceptedCount
                             + IF IsFirstSolve(accepted, existing) THEN 1 ELSE 0,
        totalAttempts |-> row.totalAttempts + 1,
        avgRuntime |-> RunningMean(row.avgRuntime, row.totalAttempts, time),
        avgMemory |-> RunningMean(row.avgMemory, row.totalAttempts, memory)]

\* Lines 443-586: the stats rows of every group of the student that is
\* linked to the exam are updated, and the response is returned.
UpdateStats(pl) ==
  LET s == pipe[pl].student
      p == pipe[pl].problem
      groups == {g \in Groups : s \in Members(g) /\ g \in ExamGroups}
      accepted == pipe[pl].status = "ACCEPTED"
  IN
  /\ pipe[pl].pc = "created"
  /\ sps' = [k \in DOMAIN sps |->
               IF k[1] = s /\ k[2] = p /\ k[3] \in groups
               THEN SpsUpsert(sps[k], accepted)
               ELSE sps[k]]
  /\ gps' = [k \in DOMAIN gps |->
               IF k[1] \in groups /\ k[2] = p
               THEN GpsUpsert(gps[k], sps[<<s, p, k[1]>>], accepted,
                              pipe[pl].time, pipe[pl].memory)
               ELSE gps[k]]
  /\ sos' = [k \in DOMAIN sos |->
               IF k[1] \in groups /\ k[2] = s THEN sos[k] + 1 ELSE sos[k]]
  /\ responses' = Append(responses, [submissionId |-> pipe[pl].sid,
                                     status |-> pipe[pl].status,
                                     score |-> pipe[pl].score,
                                     passedCount |-> pipe[pl].passed,
                                     yourTimeComplexity |->
                                       pipe[pl].yourTimeComplexity,
                                     expectedTimeComplexity |->
                                       pipe[pl].expectedTimeComplexity])
  /\ Ended(pl, "ok")
  /\ UNCHANGED <<text, probe, ai, selfSubs, selfOut, judge, validation, poll, now, exam, attempts, examResults, subs>>

\* ------------------------------------ the stats loop, statement by statement
\* The stats loop of lines 458-571 for the one group of the model, with one
\* step per awaited statement; existing rows are the ones the request read.
StatsGroup == CHOOSE g \in Groups : TRUE

\* Lines 460-470: the StudentProblemStats row is read.
StatsReadStudent(pl) ==
  /\ pipe[pl].pc = "created"
  /\ pipe' = [pipe EXCEPT
                ![pl].pc = "studentRead",
                ![pl].existingStudentProblemStats =
                   sps[<<pipe[pl].student, pipe[pl].problem, StatsGroup>>]]
  /\ UNCHANGED <<text, probe, ai, selfSubs, selfOut, judge, validation, poll,
                 now, exam, attempts, examResults, subs, sps, gps, sos, responses>>

\* Lines 478-498: the upsert creates the row when there is none at that
\* moment and updates it otherwise, with isFirstSolve as computed from the
\* row read before.
StatsUpsertStudent(pl) ==
  LET k == <<pipe[pl].student, pipe[pl].problem, StatsGroup>>
      accepted == pipe[pl].status = "ACCEPTED"
      existing == pipe[pl].existingStudentProblemStats
  IN
  /\ pipe[pl].pc = "studentRead"
  /\ sps' = [sps EXCEPT ![k] =
               IF sps[k].attempts = 0
               THEN [attempts |-> 1, solved |-> accepted]
               ELSE [attempts |-> sps[k].attempts + 1,
                     solved |-> IF IsFirstSolve(accepted, existing)
                                THEN TRUE ELSE sps[k].solved]]
  /\ pipe' = [pipe EXCEPT ![pl].pc = "studentWritten"]
  /\ UNCHANGED <<text, probe, ai, selfSubs, selfOut, judge, validation, poll,
                 now, exam, attempts, examResults, subs, gps, sos, responses>>

\* Lines 500-507: the GroupProblemStats row is read.
StatsReadGroup(pl) ==
  /\ pipe[pl].pc = "studentWritten"
  /\ pipe' = [pipe EXCEPT
                ![pl].pc = "groupRead",
                ![pl].existingGroupStats = gps[<<StatsGroup, pipe[pl].problem>>]]
  /\ UNCHANGED <<text, probe, ai, selfSubs, selfOut, judge, validation, poll,
                 now, exam, attempts, examResults, subs, sps, gps, sos, responses>>

\* Lines 509-586: the row is created when none was read (the create is
\* rejected by the unique key when there is one by now), otherwise it is
\* updated with increments of the counters and with the means computed
\* from the row read; then StudentOverallStats is upserted and the
\* response returned.
StatsWriteGroup(pl) ==
  LET s == pipe[pl].student
      k == <<StatsGroup, pipe[pl].problem>>
      accepted == pipe[pl].status = "ACCEPTED"
      existing == pipe[pl].existingStudentProblemStats
      read == pipe[pl].existingGroupStats
      inc(b) == IF b THEN 1 ELSE 0
  IN
  /\ pipe[pl].pc = "groupRead"
  /\ IF read.totalAttempts = 0 /\ gps[k].totalAttempts # 0
     THEN /\ Ended(pl, "Unique constraint failed")
          /\ UNCHANGED <<gps, sos, responses>>
     ELSE /\ gps' = [gps EXCEPT ![k] =
                       IF read.totalAttempts = 0
                       THEN GpsUpsert(read, existing, accepted,
                                      pipe[pl].time, pipe[pl].memory)
                       ELSE [attemptedCount |-> gps[k].attemptedCount
                                                  + inc(IsFirstAttempt(existing)),
                             acceptedCount |-> gps[k].acceptedCount
                                                  + inc(IsFirstSolve(accepted, existing)),
                             totalAttempts |-> gps[k].totalAttempts + 1,
                             avgRuntime |-> RunningMean(read.avgRuntime,
                                                        read.totalAttempts,
                                                        pipe[pl].time),
                             avgMemory |-> RunningMean(read.avgMemory,
                                                       read.totalAttempts,
                                                       pipe[pl].memory)]]
          /\ sos' = [sos EXCEPT ![<<StatsGroup, s>>] = sos[<<StatsGroup, s>>] + 1]
          /\ responses' = Append(responses,
                                 [submissionId |-> pipe[pl].sid,
                                  status |-> pipe[pl].status,
                                  score |-> pipe[pl].score,
                                  passedCount |-> pipe[pl].passed,
                                  yourTimeComplexity |-> pipe[pl].yourTimeComplexity,
                                  expectedTimeComplexity |->
                                    pipe[pl].expectedTimeComplexity])
          /\ Ended(pl, "ok")
  /\ UNCHANGED <<text, probe, ai, selfSubs, selfOut, judge, validation, poll,
                 now, exam, attempts, examResults, subs, sps>>

\* ------------------------------------- submitCodeService, practice mode
\* classifyComplexity of the practice-mode service, for the positive ratios
\* r1 = a/b and r2 = c/d given as <<numerator, denominator>>.
SelfClassifyComplexity(r1, r2) ==
  LET x == r1[1] * r2[2]
      y == r2[1] * r1[2]
      den == r1[2] * r2[2]
      InBin(i) == /\ 10 * (x + y) >= RangeMin[i] * 2 * den
                  /\ \/ RangeMax[i] = Null
                     \/ 10 * (x + y) < RangeMax[i] * 2 * den
  IN IF 10 * Abs(x - y) > 4 * Max(x, y) THEN "EXP"
     ELSE IF \E i \in 1..Len(Classes) : InBin(i)
          THEN Classes[CHOOSE i \in 1..Len(Classes) :
                         InBin(i) /\ \A j \in 1..(i - 1) : ~InBin(j)]
          ELSE "EXP"

\* A practice mode that accepts whatever the scaling is.
SelfStatusLenient(curr, exp) == "ACCEPTED"

\* The status of a functionally correct practice submission.
SelfStatus(curr, exp) == IF curr > exp THEN "BAD_SCALING" ELSE "ACCEPTED"

\* A call that stores a row before it throws.
SelfThrowsStoring(msg, probes) ==
  /\ selfOut' = [IdleSelf EXCEPT !.err = msg, !.probes = probes]
  /\ selfSubs' = Append(selfSubs, [student |-> "s1", problem |-> "p1",
                                   noOfPassedCases |-> 0,
                                   status |-> "BAD_ALGORITHM"])

\* The call throws: nothing is stored, the caller sees the message; probes
\* counts the single runs sent to the judge before that.
SelfThrows(msg, probes) ==
  /\ selfOut' = [IdleSelf EXCEPT !.err = msg, !.probes = probes]
  /\ UNCHANGED selfSubs

\* A count of every accepted case, also of those after the failing one.
NoOfPassedCasesAll(res) == Cardinality({i \in 1..Len(res) : res[i] = 3})

\* passed when the loop of lines 287-326 ends: the cases before the first
\* one that is not accepted (all of them when there is none).
NoOfPassedCases(res) ==
  LET failed == {i \in 1..Len(res) : res[i] # 3}
  IN IF failed = {} THEN Len(res)
     ELSE (CHOOSE i \in failed : \A j \in failed : i <= j) - 1

\* One practice-mode submitCodeService call: the cases are polled in order up
\* to the first one that is not accepted; when all are accepted the warm-up
\* run and the probes are sent and the times classified.
PracticeSubmit(s, p, ids) ==
  /\ Len(selfSubs) < MaxSelf
  /\ \E res \in Answers(p, ids) :
       LET totalCases == Len(res)
           failed == {i \in 1..totalCases : res[i] # 3}
           passed == NoOfPassedCases(res)
           gen == Generator(p)
       IN IF failed # {}
          THEN /\ selfSubs' = Append(selfSubs,
                                     [student |-> s, problem |-> p,
                                      noOfPassedCases |-> passed,
                                      status |-> "BAD_ALGORITHM"])
               /\ selfOut' = [IdleSelf EXCEPT !.err = "ok",
                                              !.status = "BAD_ALGORITHM",
                                              !.noOfPassedCases = passed,
                                              !.totalCases = totalCases,
                                              !.failedCase =
                                                 CHOOSE i \in failed :
                                                   \A j \in failed : i <= j]
          ELSE IF gen.type = "NONE"
          THEN SelfThrows("Couldn't find complexity generator", 0)
          ELSE IF gen.type # "ARRAY"
          THEN SelfThrows("Unsupported complexity generator type", 0)
          ELSE IF Len(gen.sizes) < 3
          THEN SelfThrows("Not enough complexity cases", 0)
          ELSE \E times \in Elapsed :
                 IF \E i \in DOMAIN times : times[i] <= 0
                 THEN SelfThrows("Unstable complexity measurement",
                                 1 + Len(gen.sizes))
                 ELSE LET complexity ==
                            SelfClassifyComplexity(<<times[2], times[1]>>,
                                                   <<times[3], times[2]>>)
                          status == SelfStatus(Idx(complexity),
                                               Idx(gen.expectedComplexity))
                      IN /\ selfSubs' = Append(selfSubs,
                                               [student |-> s, problem |-> p,
                                                noOfPassedCases |-> passed,
                                                status |-> status])
                         /\ selfOut' = [err |-> "ok", status |-> status,
                                        noOfPassedCases |-> passed,
                                        totalCases |-> totalCases,
                                        probes |-> 1 + Len(gen.sizes),
                                        failedCase |-> 0,
                                        yourTimeComplexity |-> complexity,
                                        expectedTimeComplexity |->
                                          gen.expectedComplexity]
  /\ UNCHANGED <<text, probe, ai, judge, validation, poll, now, exam, attempts, examResults, subs, pipe, sps, gps, sos,
                 responses>>

\* The batch request, a poll, or a probe run fails.
PracticeFails(s, p) ==
  /\ Len(selfSubs) < MaxSelf
  /\ SelfThrows("Judge0 failed", 0)
  /\ UNCHANGED <<text, probe, ai, judge, validation, poll, now, exam, attempts, examResults, subs, pipe, sps, gps, sos,
                 responses>>

\* Lines 247-288: the tokens are polled in order; the poll loop of token k
\* runs out after the tokens before it were accepted.
PracticeTimesOut(s, p, ids) ==
  /\ Len(selfSubs) < MaxSelf
  /\ \E res \in Answers(p, ids), k \in 1..CaseCount(p) :
       /\ \A j \in 1..(k - 1) : res[j] = 3
       /\ SelfThrows("Judge0 timeout", 0)
  /\ UNCHANGED <<text, probe, ai, judge, validation, poll, now, exam, attempts, examResults, subs, pipe, sps, gps, sos,
                 responses>>

\* ------------------------------------------------ validateComplexityCases
\* classifyComplexity of the validation controller, for the positive ratios
\* r1 = a/b and r2 = c/d given as <<numerator, denominator>>.
ValidateClassifyComplexity(r1, r2) ==
  LET x == r1[1] * r2[2]
      y == r2[1] * r1[2]
      den == r1[2] * r2[2]
      InBin(i) == /\ 10 * (x + y) >= RangeMin[i] * 2 * den
                  /\ \/ RangeMax[i] = Null
                     \/ 10 * (x + y) < RangeMax[i] * 2 * den
  IN IF 10 * Abs(x - y) > 4 * Max(x, y) THEN "UNSTABLE"
     ELSE IF \E i \in 1..Len(Classes) : InBin(i)
          THEN Classes[CHOOSE i \in 1..Len(Classes) :
                         InBin(i) /\ \A j \in 1..(i - 1) : ~InBin(j)]
          ELSE "UNKNOWN"

\* What the controller computes from the times of the first three runs. A
\* time of 0 makes a ratio 0, infinite or NaN: only a last time of 0 after
\* two positive ones passes through the deviation test (deviation 1), every
\* other case ends in no bin.
ValidateComplexity(times) ==
  IF \A i \in 1..3 : times[i] > 0
  THEN ValidateClassifyComplexity(<<times[2], times[1]>>, <<times[3], times[2]>>)
  ELSE IF times[1] > 0 /\ times[2] > 0 THEN "UNSTABLE" ELSE "UNKNOWN"

\* The expected classes the validation requests name.
ValidationExpected == {"N", "N3"}

\* Lines 1678-1783: the reference solution is run on the cases, the times
\* of the first three runs are classified and compared with the expected
\* class of the request.
ValidateComplexityCases(expected) ==
  /\ \E times \in Elapsed :
       LET complexity == ValidateComplexity(times)
       IN validation' =
            [code |-> IF complexity \in {"UNSTABLE", "UNKNOWN"} THEN 500
                      ELSE IF Idx(complexity) <= Idx(expected) THEN 200
                      ELSE 422,
             yourComplexity |-> complexity]
  /\ UNCHANGED <<text, probe, ai, selfSubs, selfOut, judge, poll, now, exam, attempts, examResults, subs, pipe, sps,
                 gps, sos, responses>>

\* Lines 1732-1738: a run of the reference solution fails.
ValidateComplexityFails ==
  /\ validation' = [code |-> 500, yourComplexity |-> "null"]
  /\ UNCHANGED <<text, probe, ai, selfSubs, selfOut, judge, poll, now, exam, attempts, examResults, subs, pipe, sps,
                 gps, sos, responses>>

\* ------------------------------------------------------ the poll loops
\* The bound of the loop of pollSubmission in exam mode.
MaxAttemptsExam == 30
\* The bound of the loop of poll in the run-code service.
MaxAttemptsRun == 30
\* The bound of the loop of poll in practice mode.
MaxAttemptsPractice == 40
\* The bound of the loop of pollSubmission in validateProblem.
MaxAttemptsValidate == 30

PollLoops == {"exam", "run", "practice", "validate"}

MaxAttempts(loop) ==
  IF loop = "exam" THEN MaxAttemptsExam
  ELSE IF loop = "run" THEN MaxAttemptsRun
  ELSE IF loop = "practice" THEN MaxAttemptsPractice
  ELSE MaxAttemptsValidate

\* Status ids of the judge: 1 in queue, 2 processing, the others terminal.
PollStatusIds == {1, 2, 3, 4, 6}

\* A loop that takes any answer of the judge as a result.
PollReturnsAny(id) == id > 0

\* The loops return the result when result.status.id > 2.
PollReturns(id) == id > 2

\* A call of one of the poll functions for a token.
PollStart(loop) ==
  /\ poll.outcome # "polling"
  /\ poll' = [loop |-> loop, attempts |-> 0, outcome |-> "polling", id |-> 0]
  /\ UNCHANGED <<text, probe, ai, selfSubs, selfOut, judge, validation, now, exam, attempts, examResults, subs,
                 pipe, sps, gps, sos, responses>>

\* One round of the loop: the status is fetched; a terminal result is
\* returned, otherwise the loop sleeps and counts the round.
PollOnce(id) ==
  /\ poll.outcome = "polling"
  /\ poll.attempts < MaxAttempts(poll.loop)
  /\ poll' = [poll EXCEPT !.attempts = poll.attempts + 1,
                          !.outcome = IF PollReturns(id) THEN "returned" ELSE "polling",
                          !.id = id]
  /\ UNCHANGED <<text, probe, ai, selfSubs, selfOut, judge, validation, now, exam, attempts, examResults, subs,
                 pipe, sps, gps, sos, responses>>

\* The fetch of a round fails: the loop throws.
PollThrows ==
  /\ poll.outcome = "polling"
  /\ poll.attempts < MaxAttempts(poll.loop)
  /\ poll' = [poll EXCEPT !.attempts = poll.attempts + 1, !.outcome = "failed", !.id = 0]
  /\ UNCHANGED <<text, probe, ai, selfSubs, selfOut, judge, validation, now, exam, attempts, examResults, subs,
                 pipe, sps, gps, sos, responses>>

\* The loop condition fails: the function throws the timeout error.
PollTimesOut ==
  /\ poll.outcome = "polling"
  /\ poll.attempts >= MaxAttempts(poll.loop)
  /\ poll' = [poll EXCEPT !.outcome = "timeout"]
  /\ UNCHANGED <<text, probe, ai, selfSubs, selfOut, judge, validation, now, exam, attempts, examResults, subs,
                 pipe, sps, gps, sos, responses>>

\* ------------------------------------------------------ the executable text
\* Texts are sequences of characters: "a" an ordinary character, "sp" a
\* space, "nbsp" U+00A0, "zw" a zero-width character, "ldq" and "lsq" smart
\* double and single quotes, "dq" and "sq" the plain ones, "cr", "lf".
MaxText == 1

TextChars == {"a", "nbsp", "zw", "ldq", "lsq", "cr", "lf"}

Texts == UNION {[1..n -> TextChars] : n \in 0..MaxText}

\* code.replace(/x/g, y) for a one-character pattern.
ReplaceChar(s, x, y) == [i \in 1..Len(s) |-> IF s[i] = x THEN y ELSE s[i]]

\* code.replace(/[\u200B-\u200D\uFEFF]/g, "").
RemoveZeroWidth(s) == SelectSeq(s, LAMBDA c : c # "zw")

\* code.replace(/\r\n/g, "\n"): the "cr" of every "cr","lf" pair is dropped.
RECURSIVE ReplaceCrLf(_)
ReplaceCrLf(s) ==
  IF Len(s) = 0 THEN <<>>
  ELSE IF Len(s) >= 2 /\ s[1] = "cr" /\ s[2] = "lf"
       THEN <<"lf">> \o ReplaceCrLf(SubSeq(s, 3, Len(s)))
       ELSE <<s[1]>> \o ReplaceCrLf(SubSeq(s, 2, Len(s)))

\* sanitizeSourceCode: the six replacements in their order.
SanitizeSourceCode(code) ==
  ReplaceChar(
    ReplaceCrLf(
      ReplaceChar(
        ReplaceChar(
          RemoveZeroWidth(ReplaceChar(code, "nbsp", "sp")),
          "ldq", "dq"),
        "lsq", "sq")),
    "cr", "lf")

\* Lines 187-199: the driver code is loaded and the text for the judge is
\* assembled; an absent driver row counts as empty header and footer.
AssembleFinalCode ==
  /\ ~text.sent
  /\ LET header == IF text.driver THEN text.header ELSE <<>>
         footer == IF text.driver THEN text.footer ELSE <<>>
     IN text' = [text EXCEPT
                   !.sent = TRUE,
                   !.finalCode = SanitizeSourceCode(
                                   header \o <<"lf">> \o text.sourceCode
                                          \o <<"lf">> \o footer)]
  /\ UNCHANGED <<probe, ai, selfSubs, selfOut, judge, validation, poll, now, exam, attempts,
                 examResults, subs, pipe, sps, gps, sos, responses>>

\* ------------------------------------------------- the complexity block
\* probe.dispatched lists the single runs sent to the judge, by the index of
\* their size in the generator's sizes (0: the warm-up run of practice
\* mode); probe.received counts the ones that were answered.
ProbeModes == {"exam", "practice"}

ProbeSizes == Generator("p1").sizes

\* A block that sends the next run without awaiting the previous one.
ProbeMaySendUnawaited(pr) ==
  /\ pr.pc = "probing"
  /\ Len(pr.dispatched) < Len(ProbeSizes) + (IF pr.mode = "practice" THEN 1 ELSE 0)

\* The loops await every fetch (wait=true) before the next iteration.
ProbeMaySend(pr) ==
  /\ pr.pc = "probing"
  /\ pr.received = Len(pr.dispatched)
  /\ Len(pr.dispatched) < Len(ProbeSizes) + (IF pr.mode = "practice" THEN 1 ELSE 0)

\* A request sends its batch of functional cases.
ProbeBegin(mode) ==
  /\ probe.pc \in {"idle", "done", "failed"}
  /\ probe' = [mode |-> mode, pc |-> "polling", cases |-> CaseCount("p1"),
               results |-> 0, dispatched |-> <<>>, received |-> 0, times |-> <<>>]
  /\ UNCHANGED <<text, ai, selfSubs, selfOut, judge, validation, poll, now, exam, attempts,
                 examResults, subs, pipe, sps, gps, sos, responses>>

\* The terminal result of one more functional case is in; a case that is
\* not accepted ends the request without a complexity block.
ProbeFunctionalResult(ok) ==
  /\ probe.pc = "polling"
  /\ probe.results < probe.cases
  /\ probe' = [probe EXCEPT !.results = probe.results + 1,
                            !.pc = IF ~ok THEN "done" ELSE "polling"]
  /\ UNCHANGED <<text, ai, selfSubs, selfOut, judge, validation, poll, now, exam, attempts,
                 examResults, subs, pipe, sps, gps, sos, responses>>

\* Every case passed: the complexity cases are generated from the sizes.
ProbeEnter ==
  /\ probe.pc = "polling"
  /\ probe.results = probe.cases
  /\ probe' = [probe EXCEPT !.pc = "probing"]
  /\ UNCHANGED <<text, ai, selfSubs, selfOut, judge, validation, poll, now, exam, attempts,
                 examResults, subs, pipe, sps, gps, sos, responses>>

\* The next single run is sent: the warm-up first in practice mode, then
\* the sizes in the order of the generator row.
ProbeSend ==
  /\ ProbeMaySend(probe)
  /\ probe' = [probe EXCEPT
                 !.dispatched =
                    Append(probe.dispatched,
                           Len(probe.dispatched)
                             + (IF probe.mode = "practice" THEN 0 ELSE 1))]
  /\ UNCHANGED <<text, ai, selfSubs, selfOut, judge, validation, poll, now, exam, attempts,
                 examResults, subs, pipe, sps, gps, sos, responses>>

\* The judge answers the oldest run in flight; the time of the warm-up run
\* is discarded.
ProbeReceive(time) ==
  /\ probe.pc = "probing"
  /\ probe.received < Len(probe.dispatched)
  /\ probe' = [probe EXCEPT
                 !.received = probe.received + 1,
                 !.times = IF probe.dispatched[probe.received + 1] = 0
                           THEN probe.times
                           ELSE Append(probe.times, time)]
  /\ UNCHANGED <<text, ai, selfSubs, selfOut, judge, validation, poll, now, exam, attempts,
                 examResults, subs, pipe, sps, gps, sos, responses>>

\* The answer to a run of one of the sizes is not ok: the request throws.
ProbeThrows ==
  /\ probe.pc = "probing"
  /\ probe.received < Len(probe.dispatched)
  /\ probe.dispatched[probe.received + 1] # 0
  /\ probe' = [probe EXCEPT !.pc = "failed"]
  /\ UNCHANGED <<text, ai, selfSubs, selfOut, judge, validation, poll, now, exam, attempts,
                 examResults, subs, pipe, sps, gps, sos, responses>>

\* All runs were answered: the times go to the classifier.
ProbeEnd ==
  /\ probe.pc = "probing"
  /\ Len(probe.times) = Len(ProbeSizes)
  /\ probe' = [probe EXCEPT !.pc = "done"]
  /\ UNCHANGED <<text, ai, selfSubs, selfOut, judge, validation, poll, now, exam, attempts,
                 examResults, subs, pipe, sps, gps, sos, responses>>

\* -------------------------------------------- chatWithAi, before the end
\* const RATE_LIMIT = 8; // seconds
RATE_LIMIT == 8

\* Last value of the chat clock, in seconds.
MaxChatTime == 17

\* group.aiMaxMessages.
AiMaxMessages(g) == 2

\* Time passes, the exam is still running.
ChatTick ==
  /\ ai.now < MaxChatTime
  /\ ai' = [ai EXCEPT !.now = ai.now + 1]
  /\ UNCHANGED <<text, probe, selfSubs, selfOut, judge, validation, poll, now, exam, attempts,
                 examResults, subs, pipe, sps, gps, sos, responses>>

\* Lines 86-219, for a member of a group with AI enabled before the end
\* date: the conversation row is found or created, the quota checked, the
\* AIRateLimit row found or created with lastRequest = now, the rate limit
\* checked; then lastRequest is updated, the message created, messageCount
\* incremented and the task queued.
ChatAsk(s, g) ==
  LET lastRequest == IF ai.lastRequest = Null THEN ai.now ELSE ai.lastRequest
      secondsSinceLastRequest == ai.now - lastRequest
  IN
  /\ s \in Members(g) /\ AiEnabled(g) /\ ~(EndDate < now)
  /\ ai' = IF ai.messageCount >= AiMaxMessages(g)
           THEN [ai EXCEPT !.convo = TRUE,
                           !.err = "AI Quota Exceeded For this Conversation"]
           ELSE IF secondsSinceLastRequest < RATE_LIMIT
           THEN [ai EXCEPT !.convo = TRUE,
                           !.lastRequest = lastRequest,
                           !.err = "Rate Limit Exceeded"]
           ELSE [ai EXCEPT !.convo = TRUE,
                           !.lastRequest = ai.now,
                           !.messages = ai.messages + 1,
                           !.messageCount = ai.messageCount + 1,
                           !.err = "ok"]
  /\ UNCHANGED <<text, probe, selfSubs, selfOut, judge, validation, poll, now, exam, attempts,
                 examResults, subs, pipe, sps, gps, sos, responses>>

\* ---------------------------------------------------------- specifications
Controllers(S) ==
  \/ Tick
  \/ \E s \in S : StartTest(s)
  \/ \E s \in S : Heartbeat(s)
  \/ \E s \in S : GetTestProblems(s)
  \/ \E s \in S : SubmitTest(s)
  \/ FinalizeExams
  \/ \E s \in S, g \in Groups : ChatWithAi(s, g)

PipelineSteps(P, ids) ==
  \/ \E pl \in P : Grade(pl, ids)
  \/ \E pl \in P : GradeFails(pl)
  \/ \E pl \in P : ReadPrev(pl)
  \/ \E pl \in P : Demote(pl)
  \/ \E pl \in P : Create(pl)
  \/ \E pl \in P : CreateFails(pl)
  \/ \E pl \in P : UpdateStats(pl)

\* The attempt lifecycle: every controller runs whenever it is called, the
\* clock advances, submitCode requests are served one at a time.
Next ==
  \/ Controllers(LifeStudents)
  \/ \E s \in LifeStudents, p \in LifeProblems : BeginSerial("A", s, p)
  \/ PipelineSteps({"A"}, LifeIds)

Spec == Init /\ [][Next]_vars

\* The exam is running and every student has started it; no request has
\* been made yet.
StartedStore ==
  /\ now = StartDate
  /\ exam = [isPublished |-> TRUE, status |-> "scheduled"]
  /\ attempts = [s \in Students |-> StartTestCreate]
  /\ examResults = <<>>
  /\ subs = <<>>
  /\ pipe = [pl \in Pipes |-> IdlePipe]
  /\ sps = [k \in Students \X Problems \X Groups |-> [attempts |-> 0, solved |-> FALSE]]
  /\ gps = [k \in Groups \X Problems |->
              [attemptedCount |-> 0, acceptedCount |-> 0, totalAttempts |-> 0,
               avgRuntime |-> <<0, 1>>, avgMemory |-> <<0, 1>>]]
  /\ sos = [k \in Groups \X Students |-> 0]
  /\ responses = <<>>
  /\ selfSubs = <<>>
  /\ selfOut = IdleSelf
  /\ validation = IdleValidation
  /\ poll = IdlePoll
  /\ probe = IdleProbe
  /\ ai = IdleAi

InitStarted == StartedStore /\ judge = FreeJudge /\ text = IdleText

\* Grading during a running exam, one submitCode request after the other.
NextSerial ==
  \/ \E s \in Students, p \in Problems : BeginSerial("A", s, p)
  \/ PipelineSteps({"A"}, JudgeStatusIds)

SpecSerial == InitStarted /\ [][NextSerial]_vars

\* Grading during a running exam, two submitCode requests interleaving at
\* their await points.
NextConc ==
  \/ \E pl \in Pipes, s \in Students, p \in Problems : Begin(pl, s, p)
  \/ PipelineSteps(Pipes, JudgeStatusIds)

SpecConc == InitStarted /\ [][NextConc]_vars

\* A running exam in which the students submit code for any problem, one
\* request after the other, and hand in the exam with submitTest.
NextScore ==
  \/ NextSerial
  \/ \E s \in Students : SubmitTest(s)

SpecScore == InitStarted /\ [][NextScore]_vars

\* The total time and the total memory the judge reports for the cases of
\* one submission, in the statistics specification.
Loads == {<<1, 1>>, <<3, 2>>}

StatsJudge == [scripted |-> FALSE, res |-> <<>>, times |-> <<>>, loads |-> Loads]

InitStats == StartedStore /\ judge = StatsJudge /\ text = IdleText

\* Every student submits code for one problem, one request after the other,
\* with varying run times and memory.
NextStats ==
  \/ \E s \in Students, p \in LifeProblems : BeginSerial("A", s, p)
  \/ PipelineSteps({"A"}, LifeIds)

SpecStats == InitStats /\ [][NextStats]_vars

\* One poll function at a time is called for a token and runs to its end:
\* every fetch is answered and every sleep ends.
PollStep ==
  \/ \E id \in PollStatusIds : PollOnce(id)
  \/ PollThrows
  \/ PollTimesOut

NextPoll ==
  \/ \E loop \in PollLoops : PollStart(loop)
  \/ PollStep

SpecPoll == Init /\ [][NextPoll]_vars /\ WF_vars(PollStep)

\* A submitCode request with any template and any source text.
InitText ==
  /\ StartedStore
  /\ judge = FreeJudge
  /\ \E d \in BOOLEAN, h \in Texts, s \in Texts, f \in Texts :
       text = [driver |-> d, header |-> h, sourceCode |-> s, footer |-> f,
               sent |-> FALSE, finalCode |-> <<>>]

NextText == AssembleFinalCode

SpecText == InitText /\ [][NextText]_vars

\* The complexity block of one request at a time, run by run.
NextProbe ==
  \/ \E mode \in ProbeModes : ProbeBegin(mode)
  \/ \E ok \in BOOLEAN : ProbeFunctionalResult(ok)
  \/ ProbeEnter
  \/ ProbeSend
  \/ \E time \in ProbeTimes : ProbeReceive(time)
  \/ ProbeThrows
  \/ ProbeEnd

SpecProbe == InitStarted /\ [][NextProbe]_vars

\* One student chats about one problem while the exam is running.
NextChat ==
  \/ ChatTick
  \/ \E s \in LifeStudents, g \in Groups : ChatAsk(s, g)

SpecChat == InitStarted /\ [][NextChat]_vars

\* Two submitCode requests of one student for one problem interleave at
\* every await, those of the stats loop included.
NextRace ==
  \/ \E pl \in Pipes, s \in LifeStudents, p \in LifeProblems : Begin(pl, s, p)
  \/ \E pl \in Pipes : Grade(pl, LifeIds)
  \/ \E pl \in Pipes : GradeFails(pl)
  \/ \E pl \in Pipes : ReadPrev(pl)
  \/ \E pl \in Pipes : Demote(pl)
  \/ \E pl \in Pipes : Create(pl)
  \/ \E pl \in Pipes : CreateFails(pl)
  \/ \E pl \in Pipes : StatsReadStudent(pl)
  \/ \E pl \in Pipes : StatsUpsertStudent(pl)
  \/ \E pl \in Pipes : StatsReadGroup(pl)
  \/ \E pl \in Pipes : StatsWriteGroup(pl)

SpecRace == InitStarted /\ [][NextRace]_vars

\* Elapsed times of the probes of the grading specification: a grid, and
\* triples whose ratios lie on the edges of the bins.
GridTimes == {0, 10, 15, 20, 40, 100, 1000}
EdgeTimes == {<<100, 130, 169>>, <<50, 60, 84>>, <<100, 180, 324>>,
              <<100, 260, 676>>, <<20, 90, 405>>, <<4, 30, 225>>}

\* Whether some problem with as many cases as res has a probe spec, so that
\* all-accepted results lead to a probe run.
Probed(res) ==
  /\ \A i \in DOMAIN res : res[i] = 3
  /\ \E p \in Problems : CaseCount(p) = Len(res) /\ Generator(p).type = "ARRAY"

\* What the judge is going to answer: one terminal status id per case, and
\* the elapsed times of three probes where probes can be run.
Scripts ==
  LET results == UNION {[1..CaseCount(p) -> JudgeStatusIds] : p \in Problems}
  IN {[scripted |-> TRUE, res |-> r, times |-> <<0, 0, 0>>, loads |-> {<<1, 1>>}] :
        r \in {x \in results : ~Probed(x)}}
     \cup
     {[scripted |-> TRUE, res |-> r, times |-> t, loads |-> {<<1, 1>>}] :
        r \in {x \in results : Probed(x)},
        t \in [1..3 -> GridTimes] \cup EdgeTimes}

InitGrade == StartedStore /\ judge \in Scripts /\ text = IdleText

\* Grading, exam mode and practice mode, of every answer of the judge: one
\* student submits for any problem, one request at a time; a teacher
\* validates complexity cases with the same times.
NextGrade ==
  \/ \E s \in LifeStudents, p \in Problems : BeginSerial("A", s, p)
  \/ PipelineSteps({"A"}, JudgeStatusIds)
  \/ \E s \in LifeStudents, p \in Problems : PracticeSubmit(s, p, JudgeStatusIds)
  \/ \E s \in LifeStudents, p \in Problems : PracticeFails(s, p)
  \/ GradeTimesOut("A")
  \/ \E s \in LifeStudents, p \in Problems : PracticeTimesOut(s, p, JudgeStatusIds)
  \/ \E expected \in ValidationExpected : ValidateComplexityCases(expected)
  \/ ValidateComplexityFails

SpecGrade == InitGrade /\ [][NextGrade]_vars

\* ------------------------------------------------- the final submission
Triples == Students \X Problems

\* C1: with submitCode requests served one after the other, every
\* (student, problem, attempt) triple has at most one Submission row with
\* isFinal = true, in every state.
C1_AtMostOneFinal ==
  \A tr \in Triples : Cardinality(FinalsOf(tr[1], tr[2])) <= 1

\* A triple with an older, demoted submission and a newer final one.
C1_Witness ==
  \E tr \in Triples :
    \E i, j \in RowsOf(tr[1], tr[2]) :
      i < j /\ ~subs[i].isFinal /\ FinalsOf(tr[1], tr[2]) = {j}

\* C2: also when two submitCode requests of one triple interleave at their
\* await points, no triple ever has two Submission rows with isFinal = true.
C2_AtMostOneFinalInterleaved ==
  \A tr \in Triples :
    \A i, j \in FinalsOf(tr[1], tr[2]) : i = j

\* The rows that were final for the pipeline's triple when its selector
\* started: the rows final now, and the row the pipeline itself demoted.
PriorFinals(pl) ==
  FinalsOf(pipe[pl].student, pipe[pl].problem)
    \cup (IF pipe[pl].pc = "demoted" THEN {pipe[pl].prev} ELSE {})

\* C3: the row a pipeline creates is final if and only if its triple had no
\* final row or its passed count is >= the prior final's; when it is final,
\* it is the only final row of the triple afterwards (the prior one, also
\* on a tie, is demoted), and when it is not, the prior final stays.
C3_SelectorRule ==
  [][\A pl \in Pipes :
       Create(pl) =>
         LET id == Len(subs')
             new == subs'[id]
             finalsAfter == {i \in 1..id : /\ subs'[i].student = new.student
                                           /\ subs'[i].problem = new.problem
                                           /\ subs'[i].isFinal}
         IN /\ new.isFinal <=>
                 \/ PriorFinals(pl) = {}
                 \/ \A i \in PriorFinals(pl) : new.passed >= subs[i].passed
            /\ new.isFinal => finalsAfter = {id}
            /\ ~new.isFinal => finalsAfter = PriorFinals(pl)
    ]_vars

\* A tie: two rows of a triple with the same passed count, the newer final.
C3_Witness ==
  \E tr \in Triples :
    \E i, j \in RowsOf(tr[1], tr[2]) :
      /\ i < j
      /\ subs[i].passed = subs[j].passed
      /\ ~subs[i].isFinal
      /\ subs[j].isFinal

\* C4: promotion is atomic with demotion: a triple that has Submission rows
\* (its first row was final) has a final row in every state.
C4_NoFinalGap ==
  \A tr \in Triples :
    RowsOf(tr[1], tr[2]) # {} => FinalsOf(tr[1], tr[2]) # {}

\* The score the pipeline returned for a Submission row.
ReturnedScores(id) ==
  {responses[k].score : k \in {n \in 1..Len(responses) : responses[n].submissionId = id}}

\* C5: among the completed submissions of a triple, none received a
\* strictly higher returned score than the final one.
C5_FinalIsHighestScoring ==
  \A tr \in Triples :
    \A f \in FinalsOf(tr[1], tr[2]), i \in RowsOf(tr[1], tr[2]) :
      \A sf \in ReturnedScores(f), si \in ReturnedScores(i) : si <= sf

\* -------------------------------------------------- the attempt lifecycle
\* The place of a status in NOT_STARTED -> IN_PROGRESS -> {SUBMITTED, AUTO_SUBMITTED};
\* a missing row counts as not started.
Rank(st) ==
  IF st \in {"ABSENT", "NOT_STARTED"} THEN 0
  ELSE IF st = "IN_PROGRESS" THEN 1
  ELSE 2

\* C6: no step of any operation moves an attempt to an earlier status.
C6_StatusOnlyForward ==
  [][\A s \in Students : Rank(attempts'[s].status) >= Rank(attempts[s].status)]_vars

\* An attempt that was started and has been closed.
C6_Witness ==
  \E s \in Students :
    attempts[s].status \in Terminal /\ attempts[s].startedAt # Null

\* C7: SUBMITTED and AUTO_SUBMITTED are terminal: no step changes the status
\* of an attempt that has one of them.
C7_TerminalIsTerminal ==
  [][\A s \in Students :
       attempts[s].status \in Terminal =>
         attempts'[s].status = attempts[s].status]_vars

\* validateAttempt is called for student s in the current state by the
\* operations that passed canGiveExam and found an attempt row.
Validates(s) == CanGiveExam(s) = "ok" /\ attempts[s].status # "ABSENT"

\* C8: whenever an operation calls validateAttempt after expiresAt on an
\* attempt that is IN_PROGRESS, the attempt becomes AUTO_SUBMITTED with
\* submittedAt = now and the operation fails with "Exam time over" (no
\* result is stored, the pipeline ends with that error); a call at or
\* before expiresAt changes no attempt.
C8_LazyExpiry ==
  [][\A s \in Students :
       LET a == attempts[s]
           expired == now > a.expiresAt
           begins == \E p \in Problems : Begin("A", s, p)
       IN (Validates(s) /\ (GetTestProblems(s) \/ SubmitTest(s) \/ begins)) =>
            /\ (expired /\ a.status = "IN_PROGRESS") =>
                  /\ attempts' = [attempts EXCEPT ![s].status = "AUTO_SUBMITTED",
                                                  ![s].submittedAt = now]
                  /\ examResults' = examResults
                  /\ begins => pipe'["A"].err = "Exam time over"
            /\ (~expired /\ (GetTestProblems(s) \/ begins)) => attempts' = attempts
    ]_vars

\* An attempt closed by the lazy check: AUTO_SUBMITTED after its expiry
\* while the exam has not been finalized.
C8_Witness ==
  \E s \in Students :
    /\ attempts[s].status = "AUTO_SUBMITTED"
    /\ attempts[s].startedAt # Null
    /\ attempts[s].submittedAt > attempts[s].expiresAt
    /\ exam.status = "scheduled"

\* The attempt of s exists, is IN_PROGRESS and is not past expiresAt.
Eligible(s) ==
  /\ attempts[s].status = "IN_PROGRESS"
  /\ now <= attempts[s].expiresAt

\* C9: a submitCode request whose attempt is missing, not IN_PROGRESS or
\* past expiresAt ends with an error at the eligibility check: nothing was
\* sent to the judge, no Submission row and no stats row is written.
C9_EligibilityFirst ==
  [][\A s \in Students, p \in Problems :
       (Begin("A", s, p) /\ ~Eligible(s)) =>
          /\ pipe'["A"].pc = "idle"
          /\ pipe'["A"].err \notin {"none", "ok"}
          /\ ~pipe'["A"].sent
          /\ UNCHANGED <<subs, sps, gps, sos, responses>>
    ]_vars

\* A request refused because the attempt was already closed, after an
\* earlier request of the same exam had stored a submission.
C9_Witness ==
  /\ pipe["A"].pc = "idle"
  /\ pipe["A"].err \in {"Already Attempted", "Exam time over", "Exam not active",
                        "Attempt not found"}
  /\ Len(subs) >= 1

C11_HeartbeatFrame ==
  [][\A s \in Students :
       Heartbeat(s) =>
         /\ \A t \in Students :
              /\ attempts'[t].expiresAt = attempts[t].expiresAt
              /\ attempts'[t].status = attempts[t].status
              /\ attempts'[t].startedAt = attempts[t].startedAt
              /\ attempts'[t].submittedAt = attempts[t].submittedAt
              /\ attempts'[t].totalScore = attempts[t].totalScore
              /\ (t # s \/ attempts[t].status # "IN_PROGRESS") =>
                    attempts'[t] = attempts[t]
         /\ attempts'[s].status = "IN_PROGRESS" => attempts'[s].lastHeartbeatAt = now
         /\ UNCHANGED <<exam, examResults, subs, sps, gps, sos, responses>>
    ]_vars

\* An IN_PROGRESS attempt whose liveness was recorded after its expiresAt,
\* which is still the one set at the start.
C11_Witness ==
  \E s \in Students :
    /\ attempts[s].status = "IN_PROGRESS"
    /\ attempts[s].lastHeartbeatAt > attempts[s].expiresAt
    /\ attempts[s].expiresAt = attempts[s].startedAt + DurationMin

\* C12: a submitTest that passes the gate moves the attempt to SUBMITTED,
\* stores as totalScore the per-problem best score averaged over all
\* problems of the exam (a problem without submissions contributes 0), and
\* creates one ExamResult with that score.
C12_SubmitTestAverages ==
  [][\A s \in Students :
       LET best == [p \in Problems |-> BestScore(s, p)]
           averaged == Round(SumOver(Problems, best), Cardinality(Problems))
       IN (SubmitTest(s) /\ Gate(s).err = "ok") =>
            /\ attempts[s].status = "IN_PROGRESS"
            /\ attempts'[s].status = "SUBMITTED"
            /\ attempts'[s].totalScore = averaged
            /\ examResults' = Append(examResults, [student |-> s, score |-> averaged])
    ]_vars

\* C13: totalScore of every attempt is an integer in [0,100] in every state.
C13_TotalScoreRange ==
  \A s \in Students : attempts[s].totalScore \in 0..100

\* ------------------------------------------------ scoring and status
\* C14: for every graded exam-mode submission with at least one test case,
\* the score before the complexity penalty is passedCount / totalCount * 100
\* rounded to the nearest integer (halves up), the penalised score is that
\* score halved and rounded the same way, and every score computed or
\* returned is an integer in [0,100].
C14_ScoreRounded ==
  [][\A pl \in Pipes :
       Grade(pl, JudgeStatusIds) =>
         LET total == Len(judge.res)
             passed == Cardinality({i \in 1..total : judge.res[i] = 3})
             g == pipe'[pl]
             penalised == /\ g.yourTimeComplexity # "null"
                          /\ Idx(g.yourTimeComplexity) > Idx(g.expectedTimeComplexity)
         IN /\ total >= 1
            /\ g.score \in 0..100
            /\ \E raw \in 0..100 :
                 /\ 0 - total < 2 * (raw * total - 100 * passed)
                 /\ 2 * (raw * total - 100 * passed) <= total
                 /\ IF penalised
                    THEN raw - 1 < 2 * g.score /\ 2 * g.score <= raw + 1
                    ELSE g.score = raw
            /\ \A k \in 1..Len(responses) : responses[k].score \in 0..100
    ]_vars

\* A returned score that was rounded up: 2 of 3 cases passed, score 67.
C14_Witness ==
  \E k \in 1..Len(responses) :
    /\ responses[k].passedCount = 2
    /\ subs[responses[k].submissionId].total = 3
    /\ responses[k].score = 67

\* C15: the status computed from the per-case outcomes follows the fixed
\* precedence COMPILE_ERROR, TIME_LIMIT, RUNTIME_ERROR, ACCEPTED (all
\* passed), PARTIAL (some passed), WRONG_ANSWER, for every sequence of
\* outcomes; where the complexity penalty replaced the status, the status
\* by precedence was ACCEPTED.
C15_StatusPrecedence ==
  [][\A pl \in Pipes :
       Grade(pl, JudgeStatusIds) =>
         LET outcome == FinalResults(judge.res)
             any(st) == \E i \in DOMAIN outcome : outcome[i] = st
             passed == Cardinality({i \in DOMAIN outcome : outcome[i] = "ACCEPTED"})
             byPrecedence ==
               IF any("COMPILATION_ERROR") THEN "COMPILE_ERROR"
               ELSE IF any("TIME_LIMIT_EXCEEDED") THEN "TIME_LIMIT"
               ELSE IF any("RUNTIME_ERROR") THEN "RUNTIME_ERROR"
               ELSE IF passed = Len(outcome) THEN "ACCEPTED"
               ELSE IF passed >= 1 THEN "PARTIAL"
               ELSE "WRONG_ANSWER"
             g == pipe'[pl]
             penalised == /\ g.yourTimeComplexity # "null"
                          /\ Idx(g.yourTimeComplexity) > Idx(g.expectedTimeComplexity)
         IN IF penalised THEN byPrecedence = "ACCEPTED"
            ELSE g.status = byPrecedence
    ]_vars

\* The outcomes [ACCEPTED, ACCEPTED, COMPILATION_ERROR] graded COMPILE_ERROR.
C15_Witness ==
  /\ judge.scripted
  /\ judge.res = <<3, 3, 6>>
  /\ pipe["A"].pc = "graded"
  /\ pipe["A"].passed = 2
  /\ pipe["A"].status = "COMPILE_ERROR"

\* C16: in exam mode and in practice mode, probe runs are sent to the judge
\* if and only if every test case was accepted and the problem has a probe
\* spec.
C16_ProbesIffAccepted ==
  [][LET accepted == \A i \in DOMAIN judge.res : judge.res[i] = 3
         configured(p) == Generator(p).type # "NONE"
     IN /\ \A pl \in Pipes :
             Grade(pl, JudgeStatusIds) =>
               (pipe'[pl].probes > 0 <=> (accepted /\ configured(pipe[pl].problem)))
        /\ \A s \in Students, p \in Problems :
             PracticeSubmit(s, p, JudgeStatusIds) =>
               (selfOut'.probes > 0 <=> (accepted /\ configured(p)))
    ]_vars

\* Both modes have sent probes for an accepted submission.
C16_Witness ==
  /\ pipe["A"].pc = "graded"
  /\ pipe["A"].probes > 0
  /\ selfOut.probes > 0

\* C17: an exam-mode submission whose observed class is worse than the
\* expected one is stored and returned with status ACCEPTED, with the score
\* halved, and with both classes in the response.
C17_PenaltyKeepsAccepted ==
  \A k \in 1..Len(responses) :
    LET r == responses[k]
        row == subs[r.submissionId]
    IN (/\ r.yourTimeComplexity # "null"
        /\ Idx(r.yourTimeComplexity) > Idx(r.expectedTimeComplexity)) =>
         /\ r.status = "ACCEPTED"
         /\ row.status = "ACCEPTED"
         /\ r.score = Round(Round(row.passed * 100, row.total), 2)
         /\ r.expectedTimeComplexity = Generator(row.problem).expectedComplexity

\* C18: a practice-mode submission that passed every case and was
\* classified is stored and returned as BAD_SCALING when its class is worse
\* than the expected one and as ACCEPTED otherwise; its passed count is the
\* full count in both cases.
C18_PracticeBadScaling ==
  [][\A s \in Students, p \in Problems :
       (PracticeSubmit(s, p, JudgeStatusIds) /\ selfOut'.yourTimeComplexity # "null") =>
          LET o == selfOut'
              status == IF Idx(o.yourTimeComplexity) > Idx(Generator(p).expectedComplexity)
                        THEN "BAD_SCALING" ELSE "ACCEPTED"
          IN /\ o.status = status
             /\ o.noOfPassedCases = CaseCount(p)
             /\ o.totalCases = CaseCount(p)
             /\ o.expectedTimeComplexity = Generator(p).expectedComplexity
             /\ selfSubs' = Append(selfSubs, [student |-> s, problem |-> p,
                                              noOfPassedCases |-> CaseCount(p),
                                              status |-> status])
    ]_vars

\* A practice submission stored and returned as BAD_SCALING.
C18_Witness ==
  /\ selfOut.status = "BAD_SCALING"
  /\ Len(selfSubs) >= 1
  /\ selfSubs[Len(selfSubs)].status = "BAD_SCALING"
  /\ selfSubs[Len(selfSubs)].noOfPassedCases = selfOut.totalCases

\* ----------------------------------------------------------- classifier
\* C19: when the ratios r1 = T1/T0 and r2 = T2/T1 of the measured times
\* differ by more than 0.4 of the larger one, the class the pipelines
\* compute is UNSTABLE.
C19_NoisyIsUnstable ==
  LET t == judge.times
      noisy == 10 * Abs(t[2] * t[2] - t[3] * t[1])
                 > 4 * Max(t[2] * t[2], t[3] * t[1])
  IN (judge.scripted /\ (\A i \in 1..3 : t[i] > 0) /\ noisy) =>
       /\ pipe["A"].yourTimeComplexity \in {"null", "UNSTABLE"}
       /\ selfOut.yourTimeComplexity \in {"null", "UNSTABLE"}

\* C20: when the ratios pass the deviation test, the class computed is the
\* bin of avg = (r1 + r2) / 2 among [0,1.3) LOGN, [1.3,1.8) N, [1.8,2.6)
\* NLOGN, [2.6,4.5) N2, [4.5,7.5) N3, [7.5,inf) EXP, an edge value going to
\* the upper bin; times [10,20,40] give NLOGN, times [10,100,1000] give EXP.
C20_BinOfAverage ==
  LET t == judge.times
      n == t[2] * t[2] + t[3] * t[1]       \* avg = n / d
      d == 2 * t[1] * t[2]
      noisy == 10 * Abs(t[2] * t[2] - t[3] * t[1])
                 > 4 * Max(t[2] * t[2], t[3] * t[1])
      bin == IF 10 * n < 13 * d THEN "LOGN"
             ELSE IF 10 * n < 18 * d THEN "N"
             ELSE IF 10 * n < 26 * d THEN "NLOGN"
             ELSE IF 10 * n < 45 * d THEN "N2"
             ELSE IF 10 * n < 75 * d THEN "N3"
             ELSE "EXP"
  IN (judge.scripted /\ (\A i \in 1..3 : t[i] > 0) /\ ~noisy) =>
       /\ pipe["A"].yourTimeComplexity \in {"null", bin}
       /\ selfOut.yourTimeComplexity \in {"null", bin}
       /\ t = <<10, 20, 40>> => bin = "NLOGN"
       /\ t = <<10, 100, 1000>> => bin = "EXP"

\* Times whose ratios are both 1.3, the edge between LOGN and N, classified
\* as N by both pipelines.
C20_Witness ==
  /\ judge.scripted
  /\ judge.times = <<100, 130, 169>>
  /\ pipe["A"].yourTimeComplexity = "N"
  /\ selfOut.yourTimeComplexity = "N"

\* C21: each of the three copies of classifyComplexity gives the same result
\* for (r1, r2) and for (r2, r1), and the class each caller computed from
\* the measured times is the result for the exchanged ratios.
C21_ClassifierSymmetric ==
  LET t == judge.times
      r1 == <<t[2], t[1]>>
      r2 == <<t[3], t[2]>>
  IN (judge.scripted /\ (\A i \in 1..3 : t[i] > 0)) =>
       /\ ClassifyComplexity(r1, r2) = ClassifyComplexity(r2, r1)
       /\ SelfClassifyComplexity(r1, r2) = SelfClassifyComplexity(r2, r1)
       /\ ValidateClassifyComplexity(r1, r2) = ValidateClassifyComplexity(r2, r1)
       /\ pipe["A"].yourTimeComplexity \in {"null", ClassifyComplexity(r2, r1)}
       /\ selfOut.yourTimeComplexity \in {"null", SelfClassifyComplexity(r2, r1)}
       /\ validation.yourComplexity
            \in {"null", ValidateClassifyComplexity(r2, r1)}

\* Times with the different ratios 1.5 and 1, classified by the three
\* callers.
C21_Witness ==
  /\ judge.scripted
  /\ judge.times = <<10, 15, 15>>
  /\ pipe["A"].yourTimeComplexity = "LOGN"
  /\ selfOut.yourTimeComplexity = "LOGN"
  /\ validation.yourComplexity = "LOGN"

C23_ZeroTimeFails ==
  (judge.scripted /\ \E i \in 1..3 : judge.times[i] <= 0) =>
    /\ pipe["A"].probes > 0 => pipe["A"].err = "Unstable complexity measurement"
    /\ selfOut.probes > 0 => selfOut.err = "Unstable complexity measurement"
    /\ \A k \in 1..Len(subs) : subs[k].passed < subs[k].total

\* --------------------------------------------------------- the poll loops
\* C24: a poll loop makes at most 30 polls (40 in practice mode) for its
\* token, returns only a result with status id > 2 and returns it at the
\* first such answer, throws the timeout error only after all polls of the
\* bound were answered with status id <= 2, and always comes to an end.
C24_PollLoopBounded ==
  /\ [](/\ poll.attempts <= (IF poll.loop = "practice" THEN 40 ELSE 30)
        /\ poll.outcome = "returned" => poll.id > 2
        /\ poll.outcome = "polling" => poll.id <= 2
        /\ poll.outcome = "timeout" =>
             /\ poll.attempts = (IF poll.loop = "practice" THEN 40 ELSE 30)
             /\ poll.id <= 2)
  /\ (poll.outcome = "polling") ~> (poll.outcome # "polling")

\* The practice loop timed out after 40 polls.
C24_Witness ==
  /\ poll.loop = "practice"
  /\ poll.outcome = "timeout"
  /\ poll.attempts = 40

\* ------------------------------------------------------- failure semantics
\* C25: when creating the Submission row fails, the prior final submission
\* the pipeline found is still final.
C25_FailureLeavesStore ==
  [][\A pl \in Pipes :
       CreateFails(pl) =>
         (pipe[pl].prev # 0 => subs'[pipe[pl].prev].isFinal)
    ]_vars

\* C26: a submission whose poll loop runs out creates no Submission row,
\* changes no isFinal flag, updates no stats row and sends no response in
\* exam mode, and creates no SelfSubmission row in practice mode; the caller
\* sees the timeout error.
C26_TimeoutPersistsNothing ==
  [][(GradeTimesOut("A") =>
        (/\ UNCHANGED <<subs, sps, gps, sos, responses>>
         /\ pipe'["A"].err = "Submission timed out"))
     /\
     ((\E s \in Students, p \in Problems : PracticeTimesOut(s, p, JudgeStatusIds)) =>
        (/\ UNCHANGED selfSubs
         /\ selfOut'.err = "Judge0 timeout"))
    ]_vars

\* A request timed out after an earlier submission of the same student was
\* stored, and a practice call timed out.
C26_Witness ==
  /\ pipe["A"].err = "Submission timed out"
  /\ Len(subs) >= 1
  /\ Len(responses) = Len(subs)
  /\ selfOut.err = "Judge0 timeout"
  /\ selfSubs = <<>>

\* ------------------------------------------------------------- statistics
\* C27: StudentProblemStats.solved of a key never changes from true to false.
C27_SolvedNeverReset ==
  [][\A k \in DOMAIN sps : sps[k].solved => sps'[k].solved]_vars

\* A solved key whose student has then sent a submission that is not
\* ACCEPTED, counted by the stats update.
C27_Witness ==
  /\ Len(subs) = 2
  /\ Len(responses) = 2
  /\ subs[1].status = "ACCEPTED"
  /\ subs[2].status # "ACCEPTED"
  /\ subs[2].student = subs[1].student
  /\ subs[2].problem = subs[1].problem
  /\ \A g \in Groups :
       LET row == sps[<<subs[1].student, subs[1].problem, g>>]
       IN row.solved /\ row.attempts = 2

C34_OnlySourceSanitized ==
  text.sent =>
    LET header == IF text.driver THEN text.header ELSE <<>>
        footer == IF text.driver THEN text.footer ELSE <<>>
    IN text.finalCode
         = header \o <<"lf">> \o SanitizeSourceCode(text.sourceCode)
                  \o <<"lf">> \o footer

\* ------------------------------------------------------ closed attempts
\* C35: a pipeline demotes a final submission or creates its Submission row
\* only while the attempt of its student is not SUBMITTED or AUTO_SUBMITTED.
C35_NoRowForClosedAttempt ==
  [][\A pl \in Pipes :
       (Demote(pl) \/ Create(pl)) =>
         attempts[pipe[pl].student].status \notin {"SUBMITTED", "AUTO_SUBMITTED"}
    ]_vars

\* C36: an attempt whose status is SUBMITTED or AUTO_SUBMITTED has
\* submittedAt set.
C36_ClosedHasSubmittedAt ==
  \A s \in Students :
    attempts[s].status \in {"SUBMITTED", "AUTO_SUBMITTED"} =>
      attempts[s].submittedAt # Null

\* C37: a student has at most one ExamResult row, and exactly one when the
\* attempt is SUBMITTED or AUTO_SUBMITTED.
C37_OneExamResult ==
  \A s \in Students :
    LET rows == {i \in 1..Len(examResults) : examResults[i].student = s}
    IN /\ Cardinality(rows) <= 1
       /\ attempts[s].status \in {"SUBMITTED", "AUTO_SUBMITTED"} =>
            Cardinality(rows) = 1

\* ------------------------------------------------------------ the probes
\* C33: at most one single run of a request is in flight, no run is sent
\* before every functional result is in, the runs of the sizes are sent in
\* the order of the strictly increasing sizes, and a run is sent only when
\* the run before it was answered.
C33_ProbesSequential ==
  LET n == Len(probe.dispatched)
      sized == SelectSeq(probe.dispatched, LAMBDA i : i # 0)
  IN /\ n - probe.received \in {0, 1}
     /\ n > 0 => probe.results = probe.cases
     /\ \A i \in 1..Len(sized) : sized[i] = i
     /\ \A i \in 1..(Len(sized) - 1) : ProbeSizes[sized[i]] < ProbeSizes[sized[i + 1]]
     /\ \A i \in 2..n : probe.dispatched[i] # 0
     /\ Len(probe.times) <= Len(sized)
     /\ Len(sized) - Len(probe.times) <= 1

\* A practice request that sent the warm-up run and the three sizes and
\* has all their answers.
C33_Witness ==
  /\ probe.mode = "practice"
  /\ probe.pc = "done"
  /\ probe.dispatched = <<0, 1, 2, 3>>
  /\ probe.received = 4
  /\ Len(probe.times) = 3

\* ---------------------------------------------------- practice, failing case
\* C39: a practice call that returns has stored exactly one SelfSubmission;
\* when a case was not accepted, the status is BAD_ALGORITHM, the passed
\* count is the number of cases before the first such case, that case is
\* the one returned and no single run was sent; ACCEPTED and BAD_SCALING are
\* returned only when every case was accepted.
C39_StopsAtFirstFailure ==
  [][\A s \in Students, p \in Problems :
       (PracticeSubmit(s, p, JudgeStatusIds) /\ judge.scripted /\ selfOut'.err = "ok") =>
          LET res == judge.res
              o == selfOut'
              before == {i \in 1..Len(res) : \A j \in 1..i : res[j] = 3}
              allPassed == \A i \in 1..Len(res) : res[i] = 3
          IN /\ Len(selfSubs') = Len(selfSubs) + 1
             /\ selfSubs'[Len(selfSubs')].status = o.status
             /\ selfSubs'[Len(selfSubs')].noOfPassedCases = o.noOfPassedCases
             /\ o.noOfPassedCases = Cardinality(before)
             /\ ~allPassed =>
                  /\ o.status = "BAD_ALGORITHM"
                  /\ o.failedCase = Cardinality(before) + 1
                  /\ res[o.failedCase] # 3
                  /\ o.probes = 0
                  /\ o.yourTimeComplexity = "null"
             /\ o.status \in {"ACCEPTED", "BAD_SCALING"} <=> allPassed
    ]_vars

\* The second of three cases failed although the third would have passed:
\* one passed case is counted and the second case is returned.
C39_Witness ==
  /\ judge.scripted
  /\ judge.res = <<3, 4, 3>>
  /\ selfOut.status = "BAD_ALGORITHM"
  /\ selfOut.noOfPassedCases = 1
  /\ selfOut.failedCase = 2
  /\ Len(selfSubs) = 1
  /\ selfSubs[1].noOfPassedCases = 1

\* --------------------------------------------------------- AI rate limit
\* C40: a chat request is rejected by the rate limit only when an
\* AIRateLimit row existed with lastRequest less than 8 seconds ago, so the
\* first request of a student for a problem is not rejected by it; and a
\* rejected request leaves lastRequest, the messages and messageCount as
\* they were.
C40_RateLimit ==
  [][\A s \in Students, g \in Groups :
       (ChatAsk(s, g) /\ ai'.err = "Rate Limit Exceeded") =>
          /\ ai.lastRequest # Null
          /\ ai.now - ai.lastRequest < 8
          /\ ai'.lastRequest = ai.lastRequest
          /\ ai'.messages = ai.messages
          /\ ai'.messageCount = ai.messageCount
    ]_vars

\* ------------------------------------------------- concurrent stats updates
\* C31: with concurrent grading, attemptedCount of a key never exceeds the
\* number of students that have a StudentProblemStats row for it, and
\* acceptedCount never exceeds the number of students that solved it.
C31_NoDoubleCount ==
  \A k \in DOMAIN gps :
    /\ gps[k].attemptedCount
         <= Cardinality({s \in Students : sps[<<s, k[2], k[1]>>].attempts > 0})
    /\ gps[k].acceptedCount
         <= Cardinality({s \in Students : sps[<<s, k[2], k[1]>>].solved})

\* C38: with concurrent grading, no request fails on the creation of the
\* GroupProblemStats row, and avgRuntime * totalAttempts and
\* avgMemory * totalAttempts are the sums over the submissions counted.
C38_ConcurrentMeans ==
  /\ \A pl \in Pipes : pipe[pl].err # "Unique constraint failed"
  /\ \A k \in DOMAIN gps :
       LET counted == {i \in 1..Len(subs) :
                         /\ subs[i].problem = k[2]
                         /\ \E j \in 1..Len(responses) : responses[j].submissionId = i}
       IN /\ gps[k].avgRuntime[1] * gps[k].totalAttempts
               = gps[k].avgRuntime[2]
                   * SumOver(counted, [i \in counted |-> subs[i].executionTime])
          /\ gps[k].avgMemory[1] * gps[k].totalAttempts
               = gps[k].avgMemory[2]
                   * SumOver(counted, [i \in counted |-> subs[i].memory])

\* ------------------------------------------------------ Submission frame
\* Both students submit code for one problem, one request after the other,
\* up to MaxFrameSubs submissions in all.
MaxFrameSubs == 3

NextFrame ==
  \/ \E s \in Students, p \in LifeProblems :
       /\ \A q \in Pipes : ~Active(q)
       /\ BeginBounded("A", s, p, MaxFrameSubs)
  \/ PipelineSteps({"A"}, LifeIds)

SpecFrame == InitStarted /\ [][NextFrame]_vars

\* C32: every step of a pipeline leaves the Submission rows as they are,
\* except that Demote changes isFinal of one existing row of the pipeline's
\* student and problem from true to false and nothing else, and Create
\* appends one row; a pipeline has demoted at most one row when it creates
\* its own.
C32_SubmissionFrame ==
  [][\/ subs' = subs
     \/ /\ Demote("A")
        /\ Len(subs') = Len(subs)
        /\ \E i \in 1..Len(subs) :
             /\ subs[i].isFinal
             /\ subs[i].student = pipe["A"].student
             /\ subs[i].problem = pipe["A"].problem
             /\ subs' = [subs EXCEPT ![i].isFinal = FALSE]
     \/ /\ Create("A")
        /\ Len(subs') = Len(subs) + 1
        /\ SubSeq(subs', 1, Len(subs)) = subs
        /\ subs'[Len(subs')].student = pipe["A"].student
        /\ subs'[Len(subs')].problem = pipe["A"].problem
    ]_vars

\* A pipeline that demoted the final row of its triple and created its own
\* while the final row of another student stayed as it was.
C32_Witness ==
  /\ Len(subs) = 3
  /\ Len(responses) = 3
  /\ subs[1].student # subs[2].student
  /\ subs[3].student = subs[2].student
  /\ subs[1].isFinal
  /\ ~subs[2].isFinal
  /\ subs[3].isFinal

====
